---- MODULE Spec2Model ----
(***************************************************************************)
(* factory/video_packet.go: the VideoPacket stream factory.                *)
(*                                                                         *)
(* A []byte is modelled run-length encoded: a sequence of runs <<b, n>>    *)
(* (n >= 1 copies of byte b), adjacent runs holding different bytes, so    *)
(* that two byte slices are equal iff their encodings are equal.  This     *)
(* keeps the program's real sizes (4096-byte chunks, 10 MiB payloads)      *)
(* within reach of the model checker.                                      *)
(***************************************************************************)
EXTENDS Integers, Sequences, FiniteSets, TLC

(* ------------------------------------------------------------------ *)
(* Bounds of the model                                                 *)
(* ------------------------------------------------------------------ *)
MaxConns == 2
MaxFrames == 2
ChanCap == 1

(* ------------------------------------------------------------------ *)
(* Program constants                                                   *)
(* ------------------------------------------------------------------ *)
VideoPacketMaxBufferSize == 4096
MaxDataLength == 1024 * 1024 * 10
HeaderByte == 38
TailByte == 40
VersionByte == 1
LengthOverhead == 17
ReservedSize == 10

(* ------------------------------------------------------------------ *)
(* []byte                                                              *)
(* ------------------------------------------------------------------ *)
Min(a, b) == IF a <= b THEN a ELSE b

\* make([]byte, n) filled with b
Rep(b, n) == IF n = 0 THEN <<>> ELSE << <<b, n>> >>

\* make([]byte, n): n zero bytes
MakeBytes(n) == Rep(0, n)

\* append(a, b...)
Append2(a, b) ==
    IF a = <<>> THEN b
    ELSE IF b = <<>> THEN a
    ELSE IF a[Len(a)][1] = b[1][1]
         THEN SubSeq(a, 1, Len(a) - 1)
              \o << <<b[1][1], a[Len(a)][2] + b[1][2]>> >>
              \o Tail(b)
         ELSE a \o b

\* the slice holding exactly the bytes of the plain sequence s
RECURSIVE Bytes(_)
Bytes(s) == IF s = <<>> THEN <<>> ELSE Append2(Rep(s[1], 1), Bytes(Tail(s)))

\* len(s)
RECURSIVE BLen(_)
BLen(s) == IF s = <<>> THEN 0 ELSE s[1][2] + BLen(Tail(s))

\* s[:n]
RECURSIVE Take(_, _)
Take(s, n) ==
    IF n = 0 \/ s = <<>> THEN <<>>
    ELSE IF s[1][2] <= n
         THEN << s[1] >> \o Take(Tail(s), n - s[1][2])
         ELSE << <<s[1][1], n>> >>

\* s[n:]
RECURSIVE Drop(_, _)
Drop(s, n) ==
    IF n = 0 \/ s = <<>> THEN s
    ELSE IF s[1][2] <= n
         THEN Drop(Tail(s), n - s[1][2])
         ELSE << <<s[1][1], s[1][2] - n>> >> \o Tail(s)

\* s[i], 1-based
ByteAt(s, i) == Take(Drop(s, i - 1), 1)[1][1]

\* whether byte b occurs in s
HasByte(s, b) == \E i \in 1..Len(s) : s[i][1] = b

(* ------------------------------------------------------------------ *)
(* Fixed-width integers.  A uint32 or uint64 is kept as its 16-bit     *)
(* limbs, most significant first, so that no intermediate value leaves *)
(* the checker's integer range.                                        *)
(* ------------------------------------------------------------------ *)
Limb == 256 * 256

\* binary.BigEndian.Uint32(b), widened by uint64(...)
BigEndianUint32(b) ==
    << 0, 0, ByteAt(b, 1) * 256 + ByteAt(b, 2), ByteAt(b, 3) * 256 + ByteAt(b, 4) >>

\* x - k on uint64 (wraps modulo 2^64), for 0 <= k < 2^16
U64Sub(x, k) ==
    LET b0 == IF x[4] < k THEN 1 ELSE 0
        b1 == IF x[3] < b0 THEN 1 ELSE 0
        b2 == IF x[2] < b1 THEN 1 ELSE 0
    IN << (x[1] - b2 + Limb) % Limb,
          (x[2] - b1 + Limb) % Limb,
          (x[3] - b0 + Limb) % Limb,
          (x[4] - k + Limb) % Limb >>

\* x > k on uint64, for 0 <= k < 2^31
U64Gt(x, k) ==
    \/ x[1] > 0
    \/ x[2] > 0
    \/ x[3] >= 32768
    \/ (x[3] < 32768 /\ x[3] * Limb + x[4] > k)

\* x < 0 on uint64: never true of an unsigned value
U64Negative(x) == FALSE

\* int(x) for x < 2^31
U64Int(x) == x[3] * Limb + x[4]

\* the 4 bytes of n (0 <= n < 2^31), big-endian
PutUint32(n) ==
    Bytes(<< n \div 16777216, (n \div 65536) % 256, (n \div 256) % 256, n % 256 >>)

(* ------------------------------------------------------------------ *)
(* io.Reader.  The byte source is a sequence of segments; a segment is *)
(* either a non-empty run of bytes that one Read can return at most    *)
(* (a reassembled TCP segment) or a failure: a Read that returns       *)
(* (0, err) with err other than io.EOF.  The empty sequence is a       *)
(* stream at end-of-stream.                                            *)
(* ------------------------------------------------------------------ *)
Data(b) == [err |-> FALSE, bytes |-> b]
Fail == [err |-> TRUE, bytes |-> <<>>]

\* r.Read(p) with len(p) = n >= 1: p after the call, the count, the error
\* and the source after the call
Read(reader, n) ==
    IF reader = <<>>
    THEN [n |-> 0, err |-> "EOF", buf |-> MakeBytes(n), r |-> reader]
    ELSE IF reader[1].err
    THEN [n |-> 0, err |-> "ERR", buf |-> MakeBytes(n), r |-> Tail(reader)]
    ELSE LET k == Min(n, BLen(reader[1].bytes))
             rest == Drop(reader[1].bytes, k)
         IN [n |-> k, err |-> "nil",
             buf |-> Append2(Take(reader[1].bytes, k), MakeBytes(n - k)),
             r |-> IF rest = <<>> THEN Tail(reader)
                   ELSE << Data(rest) >> \o Tail(reader)]

\* io.ReadFull(r, buf) with len(buf) = n, having read `got` so far
RECURSIVE ReadAtLeast(_, _, _)
ReadAtLeast(reader, got, n) ==
    IF BLen(got) >= n
    THEN [n |-> BLen(got), err |-> "nil", buf |-> got, r |-> reader]
    ELSE LET rd == Read(reader, n - BLen(got))
             all == Append2(got, Take(rd.buf, rd.n))
         IN IF rd.err = "nil"
            THEN ReadAtLeast(rd.r, all, n)
            ELSE [n |-> BLen(all),
                  err |-> IF rd.err = "EOF" /\ BLen(all) > 0
                          THEN "ErrUnexpectedEOF" ELSE rd.err,
                  buf |-> Append2(all, MakeBytes(n - BLen(all))),
                  r |-> rd.r]

ReadFull(reader, n) == ReadAtLeast(reader, <<>>, n)

\* the source after the one-byte reads that return the leading run of one
\* and the same non-header byte of the current segment
SkipRun(reader) ==
    LET rest == Tail(reader[1].bytes)
    IN IF rest = <<>> THEN Tail(reader) ELSE << Data(rest) >> \o Tail(reader)

(* ------------------------------------------------------------------ *)
(* parseVideoPacketRequest                                             *)
(* ------------------------------------------------------------------ *)
EOFResult(reader) == [req |-> <<>>, err |-> "EOF", r |-> reader]

\* the header loop: read one byte at a time up to a 0x26
RECURSIVE ScanHeader(_)
ScanHeader(reader) ==
    LET rd == Read(reader, 1)
    IN IF rd.err = "EOF" THEN [err |-> "EOF", proto |-> rd.buf, r |-> rd.r]
       ELSE IF rd.err # "nil" THEN ScanHeader(rd.r)
       ELSE IF ByteAt(rd.buf, 1) = HeaderByte
            THEN [err |-> "nil", proto |-> rd.buf, r |-> rd.r]
            ELSE ScanHeader(SkipRun(reader))

\* dataLength after the length field has been read
DataLengthOf(l) ==
    IF l.err = "nil"
    THEN U64Sub(BigEndianUint32(l.buf), LengthOverhead)
    ELSE << 0, 0, 0, 0 >>

\* whether the candidate is dropped on its length right after the length read
LengthRejected(l) == l.err = "nil" /\ U64Negative(DataLengthOf(l))

\* a size check that also drops a payload of exactly the cap
TooLongAtCap(dataLength) == U64Gt(dataLength, MaxDataLength - 1)

\* whether the candidate is dropped on its payload size
TooLong(dataLength) == U64Gt(dataLength, MaxDataLength)

\* whether the candidate is dropped on its version byte
VersionRejected(v) == v.err = "nil" /\ ByteAt(v.buf, 1) # VersionByte

\* a tail check that accepts every byte
TailNeverRejected(t) == FALSE

\* whether the candidate is dropped on its tail byte
TailRejected(t) == t.err = "nil" /\ ByteAt(t.buf, 1) # TailByte

\* the payload read: skipped for dataLength = 0
ReadData(reader, dataLength) ==
    IF U64Gt(dataLength, 0)
    THEN Read(reader, U64Int(dataLength))
    ELSE [n |-> 0, err |-> "nil", buf |-> <<>>, r |-> reader]

\* a frame assembled without its payload
ReqDataNoPayload(proto, length, version, reserved, data, tail) ==
    Append2(Append2(Append2(Append2(proto, length), version), reserved), tail)

\* reqData
ReqData(proto, length, version, reserved, data, tail) ==
    Append2(Append2(Append2(Append2(Append2(proto, length), version),
                            reserved), data), tail)

\* a parser that looks for io.EOF on the header read only
EOFNotChecked(rd) == FALSE

\* if err == io.EOF after the read of a field
AtEOF(rd) == rd.err = "EOF"

RECURSIVE parseVideoPacketRequest(_)

\* continue: the outer loop starts over at the bytes that follow
Continue(reader) == parseVideoPacketRequest(reader)

parseVideoPacketRequest(reader) ==
    LET h == ScanHeader(reader) IN
    IF h.err = "EOF" THEN EOFResult(h.r) ELSE
    LET l == Read(h.r, 4) IN
    IF AtEOF(l) THEN EOFResult(l.r) ELSE
    IF LengthRejected(l) THEN Continue(l.r) ELSE
    LET dataLength == DataLengthOf(l)
        v == Read(l.r, 1) IN
    IF AtEOF(v) THEN EOFResult(v.r) ELSE
    IF VersionRejected(v) THEN Continue(v.r) ELSE
    LET rs == Read(v.r, ReservedSize) IN
    IF AtEOF(rs) THEN EOFResult(rs.r) ELSE
    IF U64Gt(dataLength, 0) /\ TooLong(dataLength)
    THEN Continue(rs.r) ELSE
    LET d == ReadData(rs.r, dataLength) IN
    IF AtEOF(d) THEN EOFResult(d.r) ELSE
    LET t == Read(d.r, 1) IN
    IF AtEOF(t) THEN EOFResult(t.r) ELSE
    IF TailRejected(t) THEN Continue(t.r) ELSE
    [req |-> ReqData(h.proto, l.buf, v.buf, rs.buf, d.buf, t.buf),
     err |-> "nil", r |-> t.r]

(* ------------------------------------------------------------------ *)
(* Streams the capture layer hands over                                *)
(* ------------------------------------------------------------------ *)
\* the bytes of a candidate: header, length field, version, reserved,
\* payload, tail
Candidate(length, version, reserved, payload, tail) ==
    Append2(Bytes(<< HeaderByte >>),
    Append2(length,
    Append2(Bytes(<< version >>),
    Append2(reserved,
    Append2(payload, Bytes(<< tail >>))))))

\* a well-formed frame
Frame(reserved, payload) ==
    Candidate(PutUint32(BLen(payload) + LengthOverhead), VersionByte,
              reserved, payload, TailByte)

Reserveds == { MakeBytes(ReservedSize), Rep(HeaderByte, ReservedSize) }
Payloads == { <<>>, Bytes(<< 7 >>), Bytes(<< HeaderByte >>), Rep(0, 300) }
FrameSet == { Frame(rs, p) : rs \in Reserveds, p \in Payloads }
F0 == Frame(MakeBytes(ReservedSize), <<>>)
F1 == Frame(Rep(HeaderByte, ReservedSize), Bytes(<< 7 >>))

\* the concatenation of a sequence of byte slices
RECURSIVE Concat(_)
Concat(fs) == IF fs = <<>> THEN <<>> ELSE Append2(fs[1], Concat(Tail(fs)))

\* a source of the given segments (empty ones dropped)
RECURSIVE Segs(_)
Segs(bs) ==
    IF bs = <<>> THEN <<>>
    ELSE IF bs[1] = <<>> THEN Segs(Tail(bs))
    ELSE << Data(bs[1]) >> \o Segs(Tail(bs))

\* s cut into two segments after its first p bytes
SplitAt(s, p) == Segs(<< Take(s, p), Drop(s, p) >>)

\* s with a failing read after its first p bytes
FailAt(s, p) == Segs(<< Take(s, p) >>) \o << Fail >> \o Segs(<< Drop(s, p) >>)

\* frame f with the byte after the header marker replaced by x
Corrupt(f, x) == Append2(Take(f, 1), Append2(Bytes(<< x >>), Drop(f, 2)))

\* frame f with its tail byte replaced by t
BadTail(f, t) == Append2(Take(f, BLen(f) - 1), Bytes(<< t >>))

\* a candidate of length field n whose other markers are right and whose
\* payload (n - 17 zero bytes, none for n < 17) is all there
Sized(n) ==
    Candidate(PutUint32(n), VersionByte, MakeBytes(ReservedSize),
              MakeBytes(IF n >= LengthOverhead THEN n - LengthOverhead ELSE 0),
              TailByte)

FrameSeqs == UNION { [1..n -> FrameSet] : n \in 1..MaxFrames }
CorruptBytes == { 1, HeaderByte, 255 }
BadTails == { 41, HeaderByte, 0 }
Gaps == { <<>>, Bytes(<< 9 >>) }
LengthFields ==
    { 0, 16, 17, 18, MaxDataLength + 16, MaxDataLength + 17,
      MaxDataLength + 18, 16777233 }
RawTails == { 3, VideoPacketMaxBufferSize, VideoPacketMaxBufferSize + 3,
              2 * VideoPacketMaxBufferSize }

\* N well-formed frames in a row, read in full
FrameLists ==
    FrameSeqs
    \cup { << Sized(MaxDataLength + LengthOverhead) >>,
           << Sized(MaxDataLength + LengthOverhead), F1 >> }
FrameStreams == { Segs(<< Concat(fs) >>) : fs \in FrameLists }
\* a frame with a corrupt byte after its header, then a valid frame
CorruptStreams ==
    { Segs(<< Concat(<< Corrupt(f, x), g, f2 >>) >>) :
        f \in FrameSet, x \in CorruptBytes, g \in Gaps, f2 \in FrameSet }
\* how many payload bytes of a candidate over the cap the stream holds
OverCapShown == 32

\* the candidate of length field n as far as the stream holds it: all of it,
\* or its first payload bytes when the payload is over the cap
SizedShown(n) ==
    IF n - LengthOverhead > MaxDataLength
    THEN Take(Sized(n), LengthOverhead - 1 + OverCapShown)
    ELSE Sized(n)

\* one candidate of a given length field
SizedStreams == { Segs(<< SizedShown(n) >>) : n \in LengthFields }
\* a candidate with a wrong tail byte, then a valid frame
BadTailStreams ==
    { Segs(<< Append2(BadTail(f, t), f2) >>) :
        f \in FrameSet, t \in BadTails, f2 \in FrameSet }
\* a frame whose payload ends in the tail marker
FTail == Frame(MakeBytes(ReservedSize), Bytes(<< 170, TailByte >>))
\* a frame, and a frame after it, delivered in two segments
SplitStreams ==
    { SplitAt(Append2(f, g), p) :
        f \in { F0, F1, FTail }, g \in { <<>>, F0 },
        p \in 1..(LengthOverhead + 1) }
\* two frames and a gap with one failing read somewhere
FailStreams ==
    { FailAt(Concat(<< F0, g, F1 >>), p) :
        g \in { <<>>, Rep(5, 3) }, p \in 0..(2 * LengthOverhead + 4) }
\* a frame followed by raw bytes
TailStreams ==
    { Segs(<< Append2(f, Rep(5, k)) >> ) : f \in { F0, F1 }, k \in RawTails }
    \cup { Segs(<< Append2(F0, Rep(5, VideoPacketMaxBufferSize - 96)),
                   Rep(5, 100) >>) }
\* nothing, garbage, a truncated frame
ShortStreams ==
    { Segs(<< Append2(g, Take(F1, p)) >>) : g \in Gaps, p \in 0..BLen(F1) }
\* whole frames, then a frame cut short by the end of the stream
F300 == Frame(MakeBytes(ReservedSize), Rep(0, 300))
Cuts(f) ==
    IF f = F300 THEN { 1, 5, 6, 16, 17, 200, BLen(f) - 1 } ELSE 1..(BLen(f) - 1)
Wholes == { <<>>, << F0 >>, << F1, F0 >> }
Truncated(ws, f, p) == Segs(<< Append2(Concat(ws), Take(f, p)) >>)
TruncatedStreams ==
    { Truncated(k[1], k[2], k[3]) :
        k \in UNION { { << ws, f, p >> : p \in Cuts(f) } :
                         ws \in Wholes, f \in { F0, F1, F300 } } }
\* a header marker and a length field below 17, then a valid frame
ShortLengths == { 0, 1, LengthOverhead - 1 }
Underflow(n, f) == Append2(Append2(Bytes(<< HeaderByte >>), PutUint32(n)), f)
UnderflowStreams ==
    { Segs(<< Underflow(n, f) >>) : n \in ShortLengths, f \in FrameSet }

Streams ==
    FrameStreams \cup CorruptStreams \cup SizedStreams \cup BadTailStreams
    \cup SplitStreams \cup FailStreams \cup TailStreams \cup ShortStreams
    \cup TruncatedStreams \cup UnderflowStreams

\* the streams of connections that run side by side
FewList ==
    << Segs(<< F0 >>), Segs(<< Append2(F1, F0) >>),
       Segs(<< Append2(Bytes(<< 9 >>), F1) >>),
       FailAt(Append2(BadTail(F0, 41), F1), 17) >>
FewStreams == { FewList[i] : i \in 1..Len(FewList) }

\* n of these streams, from the k-th on
Rotation(k, n) == [i \in 1..n |-> FewList[((k + i - 2) % Len(FewList)) + 1]]

\* what the capture layer delivers: one flow of any stream, two concurrent
\* flows, or more of them
Workloads ==
    { << s >> : s \in Streams }
    \cup [1..2 -> FewStreams]
    \cup { Rotation(k, n) : k \in 1..Len(FewList), n \in 3..MaxConns }

\* the single flows of the runs checked for termination: whole frames,
\* candidates of every length, split and failing reads, truncated frames,
\* and raw bytes after a frame
FairStreams ==
    { Segs(<< Concat(fs) >>) : fs \in [1..MaxFrames -> { F0, F1 }] }
    \cup SizedStreams \cup SplitStreams \cup FailStreams \cup ShortStreams
    \cup UnderflowStreams
    \cup { Segs(<< Append2(F0, Rep(5, VideoPacketMaxBufferSize + 3)) >>),
           Segs(<< Append2(F0, Rep(5, VideoPacketMaxBufferSize - 96)),
                   Rep(5, 100) >>) }

(* ------------------------------------------------------------------ *)
(* State                                                               *)
(* ------------------------------------------------------------------ *)
Conns == 1..MaxConns
ModeRaw == "raw"
ModeRequest == "request"
Modes == { ModeRaw, ModeRequest }

VARIABLES
    mode,                   \* f.d.Config.Mode
    flows,                  \* the streams of the flows the assembler reports
    videoPacketStreamCount, \* the stream counter
    handler,                \* per connection: the function its task runs
    pc,                     \* per connection: the statement its task is at
    r,                      \* per connection: the io.Reader (what is left unread)
    req,                    \* per connection: req, or buf in the inner loop
    C,                      \* f.d.C, the shared delivery channel
    delivered,              \* what the sink has received from f.d.C
    sender,                 \* per connection: "none", "ok" or "failed"
    senderData,             \* per connection: sender.Data()
    senderRecv,             \* per connection: what the sender has received
    cancelled,              \* per connection: cancel() has run
    trace                   \* per connection: parser and read results in order

\* the buffers behind the slices: which allocation a submitted slice is
VARIABLES
    heap,                   \* per connection: the buffers allocated, by number
    bufId,                  \* per connection: the number of the buffer in req
    sentIds                 \* per connection: the numbers of the buffers sent

\* the call a task is in: parseVideoPacketRequest or io.ReadFull
VARIABLES
    locals,                 \* per connection: proto, length, ..., reqData
    parserIn,               \* per connection: the reader when the call began
    nRead                   \* per connection: n of io.ReadFull so far

taskVars == << mode, flows, videoPacketStreamCount, handler, pc, r, req, C,
               delivered, sender, senderData, senderRecv, cancelled, trace,
               heap, bufId, sentIds >>

parserVars == << locals, parserIn, nRead >>

vars == << taskVars, parserVars >>

\* the parser's variables before any read
NoLocals ==
    [proto |-> <<>>, length |-> <<>>, dataLength |-> << 0, 0, 0, 0 >>,
     version |-> <<>>, reserved |-> <<>>, data |-> <<>>, reqData |-> <<>>]

\* no task is in a call
ParserIdle ==
    /\ locals = [c \in Conns |-> NoLocals]
    /\ parserIn = [c \in Conns |-> <<>>]
    /\ nRead = [c \in Conns |-> 0]

Ev(ev, data) == [ev |-> ev, data |-> data]

Init ==
    /\ mode \in Modes
    /\ flows \in Workloads
    /\ videoPacketStreamCount = 0
    /\ handler = [c \in Conns |-> "none"]
    /\ pc = [c \in Conns |-> "none"]
    /\ r = [c \in Conns |-> <<>>]
    /\ req = [c \in Conns |-> <<>>]
    /\ C = <<>>
    /\ delivered = <<>>
    /\ sender = [c \in Conns |-> "none"]
    /\ senderData = [c \in Conns |-> <<>>]
    /\ senderRecv = [c \in Conns |-> <<>>]
    /\ cancelled = [c \in Conns |-> FALSE]
    /\ trace = [c \in Conns |-> <<>>]
    /\ heap = [c \in Conns |-> <<>>]
    /\ bufId = [c \in Conns |-> 0]
    /\ sentIds = [c \in Conns |-> <<>>]
    /\ ParserIdle

(* ------------------------------------------------------------------ *)
(* VideoPacketStreamFactory.New                                        *)
(* ------------------------------------------------------------------ *)
\* a dispatcher with the two branches swapped
HandlerSwapped(m) ==
    IF m = ModeRaw THEN "handleVideoPacketRequest" ELSE "handleVideoPacketRaw"

\* the function New starts as a goroutine
HandlerFor(m) ==
    IF m = ModeRaw THEN "handleVideoPacketRaw" ELSE "handleVideoPacketRequest"

\* where a task of the given function starts
EntryOf(h) == IF h = "handleVideoPacketRaw" THEN "newSender" ELSE "parse"

\* one reader stream kept by the factory and handed to every connection
SharedStream(fl, c) == fl[1]

\* s := tcpreader.NewReaderStream(): the stream of the c-th connection
\* carries the bytes of its own flow
StreamOf(fl, c) == fl[c]

New(c) ==
    /\ c = videoPacketStreamCount + 1
    /\ c <= Len(flows)
    /\ videoPacketStreamCount' = videoPacketStreamCount + 1
    /\ r' = [r EXCEPT ![c] = StreamOf(flows, c)]
    /\ handler' = [handler EXCEPT ![c] = HandlerFor(mode)]
    /\ pc' = [pc EXCEPT ![c] = EntryOf(HandlerFor(mode))]
    /\ UNCHANGED << parserVars, heap, bufId, sentIds, mode, flows, req, C,
                    delivered, sender, senderData, senderRecv, cancelled,
                    trace >>

(* ------------------------------------------------------------------ *)
(* Channels                                                            *)
(* ------------------------------------------------------------------ *)
\* a send on a channel nobody made: it blocks forever
NilChannel(ch) == FALSE

\* ch <- x can proceed
CanSend(ch) == Len(ch) < ChanCap

(* ------------------------------------------------------------------ *)
(* Buffers.  h is the sequence of the buffers a task has allocated; a  *)
(* slice is known by the number of its buffer.                         *)
(* ------------------------------------------------------------------ *)
\* a buffer made once and read into again: the one allocated last
BufReused(h) == IF h = <<>> THEN 1 ELSE Len(h)

\* buf := make([]byte, VideoPacketMaxBufferSize) in the inner loop: a
\* buffer nobody holds yet
MakeBuf(h) == Len(h) + 1

\* reqData := []byte{} and its appends: a new buffer for every frame
MakeReqData(h) == Len(h) + 1

\* h after the bytes b have been written to buffer id
Store(h, id, b) == IF id <= Len(h) THEN [h EXCEPT ![id] = b] ELSE Append(h, b)

\* ch after ch <- x
Send(ch, x) == Append(ch, x)

\* a buffer on a sender's data channel, with the statement that submitted it
Item(kind, data) == [kind |-> kind, data |-> data]

(* ------------------------------------------------------------------ *)
(* parseVideoPacketRequest, one r.Read at a time.  A step is one read  *)
(* statement of the loop with the checks that follow it, up to the     *)
(* next read; the return is part of the step that reaches it, with     *)
(* the caller's err != nil test.                                       *)
(* ------------------------------------------------------------------ *)
\* the statements of the parser a task can stand at
ParserPositions ==
    { "header", "length", "version", "reserved", "data", "tail" }

\* a request task that calls the parser again after an error
RequestRetries == "parse"

\* where the request task goes when the parser returns an error
RequestOnError == "done"

\* a request task that drops the frame and calls the parser again
RequestSkipsSend == "parse"

\* where the request task goes when the parser returns a frame
RequestOnFrame == "send"

\* where the caller goes when the parser returns an error: both return
OnError(h) == IF h = "handleVideoPacketRequest" THEN RequestOnError ELSE "done"

\* where the caller goes when the parser returns a frame: both submit it
OnFrame(h) == IF h = "handleVideoPacketRequest" THEN RequestOnFrame ELSE "send"

\* a parser that gives up at the first candidate it drops
ContinueStops == "done"

\* continue: the outer loop starts over at its header loop
ContinueAt == "header"

\* a header loop that does not move on from a byte other than 0x26
ScanStays(r0, rd) == r0

\* the reader after the header loop has read a byte other than 0x26
ScanOn(r0, rd) == rd.r

\* what the steps of the parser leave alone
parserFrame == << mode, flows, videoPacketStreamCount, handler, C, delivered,
                  sender, senderData, senderRecv, sentIds, parserIn, nRead >>

\* req, err := f.parseVideoPacketRequest(r): the task enters the parser
StepCall(c) ==
    /\ pc[c] = "parse"
    /\ pc' = [pc EXCEPT ![c] = "header"]
    /\ locals' = [locals EXCEPT ![c] = NoLocals]
    /\ parserIn' = [parserIn EXCEPT ![c] = r[c]]
    /\ nRead' = [nRead EXCEPT ![c] = 0]
    /\ UNCHANGED << mode, flows, videoPacketStreamCount, handler, r, req, C,
                    delivered, sender, senderData, senderRecv, cancelled,
                    trace, heap, bufId, sentIds >>

\* the parser goes on to its statement p
ParserGoes(c, p, l) ==
    /\ pc' = [pc EXCEPT ![c] = p]
    /\ locals' = [locals EXCEPT ![c] = l]
    /\ UNCHANGED << req, heap, bufId, cancelled, trace >>

\* continue
ParserContinues(c) == ParserGoes(c, ContinueAt, NoLocals)

\* return nil, err with err == io.EOF; the caller returns, and the
\* deferred cancel() of a raw task runs
ReturnEOF(c) ==
    /\ pc' = [pc EXCEPT ![c] = OnError(handler[c])]
    /\ locals' = [locals EXCEPT ![c] = NoLocals]
    /\ cancelled' = [cancelled EXCEPT ![c] = handler[c] = "handleVideoPacketRaw"]
    /\ trace' = [trace EXCEPT ![c] = Append(@, Ev("eof", <<>>))]
    /\ UNCHANGED << req, heap, bufId >>

\* return reqData, nil
ReturnFrame(c, l) ==
    /\ pc' = [pc EXCEPT ![c] = OnFrame(handler[c])]
    /\ locals' = [locals EXCEPT ![c] = l]
    /\ trace' = [trace EXCEPT ![c] = Append(@, Ev("frame", l.reqData))]
    /\ req' = [req EXCEPT ![c] = l.reqData]
    /\ bufId' = [bufId EXCEPT ![c] = MakeReqData(heap[c])]
    /\ heap' = [heap EXCEPT ![c] = Store(@, MakeReqData(@), l.reqData)]
    /\ UNCHANGED cancelled

\* r.Read(proto) in the header loop
StepHeader(c) ==
    /\ pc[c] = "header"
    /\ \E rd \in { Read(r[c], 1) } :
          IF rd.err = "EOF"
          THEN r' = [r EXCEPT ![c] = rd.r] /\ ReturnEOF(c)
          ELSE IF rd.err # "nil"
          THEN r' = [r EXCEPT ![c] = rd.r] /\ ParserGoes(c, "header", locals[c])
          ELSE IF ByteAt(rd.buf, 1) = HeaderByte
          THEN /\ r' = [r EXCEPT ![c] = rd.r]
               /\ ParserGoes(c, "length", [locals[c] EXCEPT !.proto = rd.buf])
          ELSE /\ r' = [r EXCEPT ![c] = ScanOn(r[c], rd)]
               /\ ParserGoes(c, "header", locals[c])
    /\ UNCHANGED parserFrame

\* r.Read(length) and the computation of dataLength
StepLength(c) ==
    /\ pc[c] = "length"
    /\ \E l \in { Read(r[c], 4) } :
          /\ r' = [r EXCEPT ![c] = l.r]
          /\ IF AtEOF(l) THEN ReturnEOF(c)
             ELSE IF LengthRejected(l) THEN ParserContinues(c)
             ELSE ParserGoes(c, "version",
                             [locals[c] EXCEPT !.length = l.buf,
                                               !.dataLength = DataLengthOf(l)])
    /\ UNCHANGED parserFrame

\* r.Read(version) and the version check
StepVersion(c) ==
    /\ pc[c] = "version"
    /\ \E v \in { Read(r[c], 1) } :
          /\ r' = [r EXCEPT ![c] = v.r]
          /\ IF AtEOF(v) THEN ReturnEOF(c)
             ELSE IF VersionRejected(v) THEN ParserContinues(c)
             ELSE ParserGoes(c, "reserved", [locals[c] EXCEPT !.version = v.buf])
    /\ UNCHANGED parserFrame

\* r.Read(reserved), then if dataLength > 0 the size check
StepReserved(c) ==
    /\ pc[c] = "reserved"
    /\ \E rs \in { Read(r[c], ReservedSize) } :
          /\ r' = [r EXCEPT ![c] = rs.r]
          /\ IF AtEOF(rs) THEN ReturnEOF(c)
             ELSE IF ~U64Gt(locals[c].dataLength, 0)
             THEN ParserGoes(c, "tail", [locals[c] EXCEPT !.reserved = rs.buf])
             ELSE IF TooLong(locals[c].dataLength) THEN ParserContinues(c)
             ELSE ParserGoes(c, "data", [locals[c] EXCEPT !.reserved = rs.buf])
    /\ UNCHANGED parserFrame

\* data = make([]byte, dataLength) and r.Read(data)
StepData(c) ==
    /\ pc[c] = "data"
    /\ \E d \in { ReadData(r[c], locals[c].dataLength) } :
          /\ r' = [r EXCEPT ![c] = d.r]
          /\ IF AtEOF(d) THEN ReturnEOF(c)
             ELSE ParserGoes(c, "tail", [locals[c] EXCEPT !.data = d.buf])
    /\ UNCHANGED parserFrame

\* r.Read(tail), the tail check and the return of reqData
StepTail(c) ==
    /\ pc[c] = "tail"
    /\ \E t \in { Read(r[c], 1) } :
          /\ r' = [r EXCEPT ![c] = t.r]
          /\ IF AtEOF(t) THEN ReturnEOF(c)
             ELSE IF TailRejected(t) THEN ParserContinues(c)
             ELSE ReturnFrame(c, [locals[c] EXCEPT !.reqData =
                                     ReqData(locals[c].proto, locals[c].length,
                                             locals[c].version,
                                             locals[c].reserved,
                                             locals[c].data, t.buf)])
    /\ UNCHANGED parserFrame

\* one statement of the parser call the task of c is in
ParserStep(c) ==
    \/ StepHeader(c)
    \/ StepLength(c)
    \/ StepVersion(c)
    \/ StepReserved(c)
    \/ StepData(c)
    \/ StepTail(c)

(* ------------------------------------------------------------------ *)
(* handleVideoPacketRequest                                            *)
(* ------------------------------------------------------------------ *)
\* req, err := f.parseVideoPacketRequest(r)
RequestParse(c) ==
    /\ handler[c] = "handleVideoPacketRequest"
    /\ StepCall(c)

\* f.d.C <- req
RequestSend(c) ==
    /\ handler[c] = "handleVideoPacketRequest"
    /\ pc[c] = "send"
    /\ CanSend(C)
    /\ C' = Send(C, [conn |-> c, data |-> req[c]])
    /\ pc' = [pc EXCEPT ![c] = "parse"]
    /\ sentIds' = [sentIds EXCEPT ![c] = Append(@, bufId[c])]
    /\ UNCHANGED << parserVars, heap, bufId, mode, flows,
                    videoPacketStreamCount, handler, r, req, delivered,
                    sender, senderData, senderRecv, cancelled, trace >>

\* the sink takes the next item off f.d.C
DeliverRecv ==
    /\ C # <<>>
    /\ delivered' = Append(delivered, Head(C))
    /\ C' = Tail(C)
    /\ UNCHANGED << parserVars, heap, bufId, sentIds, mode, flows,
                    videoPacketStreamCount, handler, pc, r, req, sender,
                    senderData, senderRecv, cancelled, trace >>

(* ------------------------------------------------------------------ *)
(* handleVideoPacketRaw                                                *)
(* ------------------------------------------------------------------ *)
\* a raw task that goes on without a sender
RawIgnoresSenderError(ok) == "parse"

\* where the raw task goes after deliver.NewLongConnSender
RawOnSender(ok) == IF ok THEN "parse" ELSE "done"

\* deliver.NewLongConnSender returns a sender (ok) or an error
RawNewSender(c, ok) ==
    /\ handler[c] = "handleVideoPacketRaw"
    /\ pc[c] = "newSender"
    /\ sender' = [sender EXCEPT ![c] = IF ok THEN "ok" ELSE "failed"]
    /\ pc' = [pc EXCEPT ![c] = RawOnSender(ok)]
    /\ cancelled' = [cancelled EXCEPT ![c] = ~ok]
    /\ UNCHANGED << parserVars, heap, bufId, sentIds, mode, flows,
                    videoPacketStreamCount, handler, r, req, C, delivered,
                    senderData, senderRecv, trace >>

\* Phase A: req, err := f.parseVideoPacketRequest(r) in the outer loop
RawParse(c) ==
    /\ handler[c] = "handleVideoPacketRaw"
    /\ StepCall(c)

\* sender.Data() <- req
RawSendAnchor(c) ==
    /\ handler[c] = "handleVideoPacketRaw"
    /\ pc[c] = "send"
    /\ CanSend(senderData[c])
    /\ senderData' = [senderData EXCEPT ![c] = Send(@, Item("anchor", req[c]))]
    /\ pc' = [pc EXCEPT ![c] = "readFull"]
    /\ sentIds' = [sentIds EXCEPT ![c] = Append(@, bufId[c])]
    /\ nRead' = [nRead EXCEPT ![c] = 0]
    /\ UNCHANGED << locals, parserIn, heap, bufId, mode, flows,
                    videoPacketStreamCount, handler, r, req, C, delivered,
                    sender, senderRecv, cancelled, trace >>

\* what is submitted after io.ReadFull filled n bytes of buf and failed
Flushed(buf, n) == buf

\* a raw task that returns on a failed io.ReadFull
RawReadErrorReturns(n) == "done"

\* a raw task that makes a new sender after a failed io.ReadFull
RawReadErrorNewSender(n) == "newSender"

\* where the raw task goes after a failed io.ReadFull of n bytes
RawOnReadError(n) == IF n > 0 THEN "flush" ELSE "parse"

\* buf after r.Read(buf[n:]) has returned rd
ReadInto(buf, n, rd) == Append2(Take(buf, n), rd.buf)

\* Phase B: buf := make([]byte, 4096) and io.ReadFull(r, buf), one r.Read
\* of its loop at a time
RawReadFull(c) ==
    /\ handler[c] = "handleVideoPacketRaw"
    /\ pc[c] = "readFull"
    /\ \E rd \in { Read(r[c], VideoPacketMaxBufferSize - nRead[c]) } :
          \E id \in { IF nRead[c] = 0 THEN MakeBuf(heap[c]) ELSE bufId[c] } :
          \E buf \in { ReadInto(IF nRead[c] = 0
                                THEN MakeBytes(VideoPacketMaxBufferSize)
                                ELSE req[c], nRead[c], rd) } :
          \E n \in { nRead[c] + rd.n } :
             /\ r' = [r EXCEPT ![c] = rd.r]
             /\ nRead' = [nRead EXCEPT ![c] = n]
             /\ parserIn' = [parserIn EXCEPT ![c] =
                                IF nRead[c] = 0 THEN r[c] ELSE @]
             /\ bufId' = [bufId EXCEPT ![c] = id]
             /\ heap' = [heap EXCEPT ![c] = Store(@, id, buf)]
             /\ IF rd.err # "nil"
                THEN /\ pc' = [pc EXCEPT ![c] = RawOnReadError(n)]
                     /\ trace' = [trace EXCEPT ![c] =
                                    Append(@, Ev("fail", Take(buf, n)))]
                     /\ req' = [req EXCEPT ![c] = Flushed(buf, n)]
                ELSE IF n = VideoPacketMaxBufferSize
                THEN /\ pc' = [pc EXCEPT ![c] = "sendChunk"]
                     /\ trace' = [trace EXCEPT ![c] = Append(@, Ev("chunk", buf))]
                     /\ req' = [req EXCEPT ![c] = buf]
                ELSE /\ pc' = pc
                     /\ trace' = trace
                     /\ req' = [req EXCEPT ![c] = buf]
    /\ UNCHANGED << locals, sentIds, mode, flows, videoPacketStreamCount,
                    handler, C, delivered, sender, senderData, senderRecv,
                    cancelled >>

\* sender.Data() <- buf after a full read: stay in the inner loop
RawSendChunk(c) ==
    /\ handler[c] = "handleVideoPacketRaw"
    /\ pc[c] = "sendChunk"
    /\ CanSend(senderData[c])
    /\ senderData' = [senderData EXCEPT ![c] = Send(@, Item("chunk", req[c]))]
    /\ pc' = [pc EXCEPT ![c] = "readFull"]
    /\ sentIds' = [sentIds EXCEPT ![c] = Append(@, bufId[c])]
    /\ nRead' = [nRead EXCEPT ![c] = 0]
    /\ UNCHANGED << locals, parserIn, heap, bufId, mode, flows,
                    videoPacketStreamCount, handler, r, req, C, delivered,
                    sender, senderRecv, cancelled, trace >>

\* sender.Data() <- buf after a failed read with n > 0, then break
RawFlush(c) ==
    /\ handler[c] = "handleVideoPacketRaw"
    /\ pc[c] = "flush"
    /\ CanSend(senderData[c])
    /\ senderData' = [senderData EXCEPT ![c] = Send(@, Item("flush", req[c]))]
    /\ pc' = [pc EXCEPT ![c] = "parse"]
    /\ sentIds' = [sentIds EXCEPT ![c] = Append(@, bufId[c])]
    /\ UNCHANGED << parserVars, heap, bufId, mode, flows,
                    videoPacketStreamCount, handler, r, req, C, delivered,
                    sender, senderRecv, cancelled, trace >>

\* the sender takes the next item off its data channel
SenderRecv(c) ==
    /\ senderData[c] # <<>>
    /\ senderRecv' = [senderRecv EXCEPT ![c] = Append(@, Head(senderData[c]))]
    /\ senderData' = [senderData EXCEPT ![c] = Tail(@)]
    /\ UNCHANGED << parserVars, heap, bufId, sentIds, mode, flows,
                    videoPacketStreamCount, handler, pc, r, req, C,
                    delivered, sender, cancelled, trace >>

Next ==
    \/ \E c \in Conns : New(c)
    \/ \E c \in Conns : RequestParse(c)
    \/ \E c \in Conns : StepHeader(c)
    \/ \E c \in Conns : StepLength(c)
    \/ \E c \in Conns : StepVersion(c)
    \/ \E c \in Conns : StepReserved(c)
    \/ \E c \in Conns : StepData(c)
    \/ \E c \in Conns : StepTail(c)
    \/ \E c \in Conns : RequestSend(c)
    \/ DeliverRecv
    \/ \E c \in Conns, ok \in BOOLEAN : RawNewSender(c, ok)
    \/ \E c \in Conns : RawParse(c)
    \/ \E c \in Conns : RawSendAnchor(c)
    \/ \E c \in Conns : RawReadFull(c)
    \/ \E c \in Conns : RawSendChunk(c)
    \/ \E c \in Conns : RawFlush(c)
    \/ \E c \in Conns : SenderRecv(c)

Spec == Init /\ [][Next]_vars

\* one step of the goroutine of connection c
Task(c) ==
    \/ RequestParse(c)
    \/ ParserStep(c)
    \/ RequestSend(c)
    \/ \E ok \in BOOLEAN : RawNewSender(c, ok)
    \/ RawParse(c)
    \/ RawSendAnchor(c)
    \/ RawReadFull(c)
    \/ RawSendChunk(c)
    \/ RawFlush(c)

\* one flow of each kind of stream, two concurrent flows, or more of them
FairWorkloads ==
    { << s >> : s \in FairStreams }
    \cup [1..2 -> FewStreams]
    \cup { Rotation(k, n) : k \in { 1, Len(FewList) }, n \in 3..MaxConns }

InitFair == Init /\ flows \in FairWorkloads

\* The runs in which the Go scheduler lets every goroutine that can take a
\* step take it (a task blocked on a full channel cannot), the capture
\* layer hands over every connection, and the consumers of f.d.C and of the
\* senders' data channels keep receiving.
FairSpec ==
    /\ InitFair
    /\ [][Next]_vars
    /\ \A c \in Conns : WF_vars(New(c))
    /\ \A c \in Conns : WF_vars(Task(c))
    /\ \A c \in Conns : WF_vars(SenderRecv(c))
    /\ WF_vars(DeliverRecv)

(* ------------------------------------------------------------------ *)
(* One request task alone on any stream: a caller that calls the       *)
(* parser until it returns io.EOF, with the sink receiving.            *)
(* ------------------------------------------------------------------ *)
InitParser ==
    /\ Init
    /\ mode = ModeRequest
    /\ Len(flows) = 1

NextParser ==
    \/ New(1)
    \/ RequestParse(1)
    \/ StepHeader(1)
    \/ StepLength(1)
    \/ StepVersion(1)
    \/ StepReserved(1)
    \/ StepData(1)
    \/ StepTail(1)
    \/ RequestSend(1)
    \/ DeliverRecv

\* The parser and its caller are sequential code: as long as there is a
\* next statement that can be executed, one is.
SpecParser == InitParser /\ [][NextParser]_vars /\ WF_vars(NextParser)

\* the statement-by-statement parser returns what parseVideoPacketRequest
\* returns, and leaves the reader where it leaves it
ParserRefines ==
    \A c \in Conns :
        /\ pc[c] = "send" =>
               parseVideoPacketRequest(parserIn[c]) =
                   [req |-> req[c], err |-> "nil", r |-> r[c]]
        /\ (pc[c] = "done" /\ trace[c] # <<>>) =>
               LET res == parseVideoPacketRequest(parserIn[c])
               IN res.err = "EOF" /\ res.r = r[c]

(* ------------------------------------------------------------------ *)
(* Properties                                                          *)
(* ------------------------------------------------------------------ *)
Active(c) == c <= Len(flows)
InRequest(c) == Active(c) /\ handler[c] = "handleVideoPacketRequest"
InRaw(c) == Active(c) /\ handler[c] = "handleVideoPacketRaw"

\* the frames the parser has returned to the task of connection c, in order
FrameEvents(t) == SelectSeq(t, LAMBDA e : e.ev = "frame")
Returned(c) ==
    [i \in 1..Len(FrameEvents(trace[c])) |-> FrameEvents(trace[c])[i].data]

\* whether x is an element of the sequence s
InSeq(x, s) == \E i \in 1..Len(s) : s[i] = x

\* the streams of FrameStreams with the frames they were built from
FrameCases == { [stream |-> Segs(<< Concat(fs) >>), fs |-> fs] : fs \in FrameLists }

\* C1: on a stream of N well-formed frames read in full, the k-th parser
\* call returns the k-th frame byte for byte (k <= N) and call N+1 returns
\* io.EOF.
C1_FramesInOrder ==
    \A c \in Conns :
        (InRequest(c) /\ flows[c] \in FrameStreams) =>
            \A k \in FrameCases :
                flows[c] = k.stream =>
                    /\ Len(trace[c]) <= Len(k.fs) + 1
                    /\ \A i \in 1..Len(trace[c]) :
                          trace[c][i] = IF i <= Len(k.fs)
                                        THEN Ev("frame", k.fs[i])
                                        ELSE Ev("eof", <<>>)

C1_Witness ==
    \E k \in FrameCases :
        /\ Len(k.fs) = 2
        /\ k.fs[1] # k.fs[2]
        /\ flows = << k.stream >>
        /\ trace[1] = << Ev("frame", k.fs[1]), Ev("frame", k.fs[2]),
                         Ev("eof", <<>>) >>

\* the streams of CorruptStreams with the frames they were built from
CorruptCases ==
    { [stream |-> Segs(<< Concat(<< Corrupt(Frame(rs, p), x), g, f2 >>) >>),
       payload |-> p, f2 |-> f2] :
        rs \in Reserveds, p \in Payloads, x \in CorruptBytes, g \in Gaps,
        f2 \in FrameSet }

\* C2 as stated: after a frame whose byte after the header is corrupt, the
\* valid frame F2 that follows is returned before the parser reports io.EOF,
\* whatever the payloads.
C2_AsStated ==
    \A c \in Conns :
        (InRequest(c) /\ pc[c] = "done") =>
            \A k \in CorruptCases :
                flows[c] = k.stream => InSeq(k.f2, Returned(c))

\* C2: after a frame whose byte after the header is corrupt and whose
\* payload holds no 0x26 byte, the valid frame F2 that follows is returned
\* before the parser reports io.EOF.
C2_Resync ==
    \A c \in Conns :
        (InRequest(c) /\ pc[c] = "done") =>
            \A k \in CorruptCases :
                (flows[c] = k.stream /\ ~HasByte(k.payload, HeaderByte)) =>
                    InSeq(k.f2, Returned(c))

C2_Witness ==
    \E k \in CorruptCases :
        /\ flows = << k.stream >>
        /\ ~HasByte(k.payload, HeaderByte)
        /\ k.payload # <<>>
        /\ InRequest(1) /\ pc[1] = "done"
        /\ Returned(1) = << k.f2 >>

\* the length fields that put the payload length in [0, 10 MiB]
ValidLength(n) == n >= LengthOverhead /\ n - LengthOverhead <= MaxDataLength

\* the buffers connection c has put on a channel or is about to
QueuedBy(c) ==
    { C[i].data : i \in { j \in 1..Len(C) : C[j].conn = c } }
    \cup { delivered[i].data : i \in { j \in 1..Len(delivered) : delivered[j].conn = c } }
    \cup { senderData[c][i].data : i \in 1..Len(senderData[c]) }
    \cup { senderRecv[c][i].data : i \in 1..Len(senderRecv[c]) }

\* the streams of SizedStreams with their length field and candidate, and
\* what the parser returns on the whole candidate
SizedCases ==
    { [stream |-> Segs(<< SizedShown(n) >>), n |-> n, cand |-> Sized(n),
       whole |-> parseVideoPacketRequest(Segs(<< Sized(n) >>))] :
        n \in LengthFields }

\* C3: a candidate with the right markers and all its bytes is returned as
\* a frame iff its length field puts the payload length in [0, 10 MiB];
\* otherwise it is never returned nor forwarded.
C3_LengthWindow ==
    \A c \in Conns :
        Active(c) =>
            \A k \in SizedCases :
                flows[c] = k.stream =>
                    IF ValidLength(k.n)
                    THEN /\ k.whole.err = "nil" /\ k.whole.req = k.cand
                         /\ trace[c] # <<>> => trace[c][1] = Ev("frame", k.cand)
                    ELSE /\ k.whole.err = "EOF"
                         /\ Returned(c) = <<>>
                         /\ QueuedBy(c) = {}

C3_Witness ==
    /\ flows = << Segs(<< Sized(MaxDataLength + LengthOverhead) >>) >>
    /\ delivered = << [conn |-> 1, data |-> Sized(MaxDataLength + LengthOverhead)] >>
    /\ pc[1] = "done"

\* the bytes of a source without failing reads
RECURSIVE Flat(_)
Flat(rd) == IF rd = <<>> THEN <<>> ELSE Append2(rd[1].bytes, Flat(Tail(rd)))

NoFail(rd) == \A i \in 1..Len(rd) : ~rd[i].err

\* the buffer the raw task of c is blocked submitting, if any
Pending(c) ==
    IF pc[c] = "send" THEN << Item("anchor", req[c]) >>
    ELSE IF pc[c] = "sendChunk" THEN << Item("chunk", req[c]) >>
    ELSE IF pc[c] = "flush" THEN << Item("flush", req[c]) >>
    ELSE <<>>

\* every buffer the raw task of c has submitted or is submitting, in order
Submitted(c) == senderRecv[c] \o senderData[c] \o Pending(c)

\* the concatenation of the buffers of a sequence of items
RECURSIVE ConcatData(_)
ConcatData(items) ==
    IF items = <<>> THEN <<>>
    ELSE Append2(items[1].data, ConcatData(Tail(items)))

\* C4 as stated: within the first anchor cycle of a raw connection, the
\* buffers submitted after the anchor are at most 4096 bytes each and
\* concatenate to exactly the stream bytes consumed after the anchor frame.
C4_RawVerbatim ==
    \A c \in Conns :
        (InRaw(c) /\ NoFail(flows[c]) /\ Len(Returned(c)) = 1) =>
            LET items == Submitted(c)
                raw == ConcatData(Tail(items))
                total == Flat(flows[c])
                reading == IF pc[c] = "readFull" THEN nRead[c] ELSE 0
                consumed == BLen(total) - BLen(Flat(r[c])) - reading
            IN items # <<>> =>
                  /\ \A i \in 2..Len(items) :
                        BLen(items[i].data) <= VideoPacketMaxBufferSize
                  /\ BLen(raw) <= consumed
                  /\ raw = Drop(Take(total, consumed), consumed - BLen(raw))

\* the frames successive parser calls return on a source, up to io.EOF
RECURSIVE ParseAll(_)
ParseAll(rd) ==
    LET res == parseVideoPacketRequest(rd)
    IN IF res.err # "nil" THEN <<>> ELSE << res.req >> \o ParseAll(res.r)

\* C5 as stated: the frames the parser returns do not depend on how the
\* source splits the stream across reads; they are those of a source that
\* fills every buffer.
C5_SplitIndependent ==
    \A c \in Conns :
        (InRequest(c) /\ NoFail(flows[c]) /\ pc[c] = "done") =>
            Returned(c) = ParseAll(Segs(<< Flat(flows[c]) >>))

\* the streams of BadTailStreams with the frames they were built from
BadTailCases ==
    { [stream |-> Segs(<< Append2(BadTail(f, t), f2) >>),
       bad |-> BadTail(f, t), f2 |-> f2] :
        f \in FrameSet, t \in BadTails, f2 \in FrameSet }

\* C6: a candidate that is well-formed but for its tail byte, directly
\* followed by a valid frame F: the first parser call returns F, and the
\* candidate is never returned.
C6_BadTail ==
    \A c \in Conns :
        (Active(c) /\ trace[c] # <<>>) =>
            \A k \in BadTailCases :
                flows[c] = k.stream =>
                    /\ trace[c][1] = Ev("frame", k.f2)
                    /\ ~InSeq(k.bad, Returned(c))

C6_Witness ==
    \E k \in BadTailCases :
        /\ flows = << k.stream >>
        /\ ByteAt(k.bad, BLen(k.bad)) = HeaderByte
        /\ delivered = << [conn |-> 1, data |-> k.f2] >>

\* the kinds of the buffers a raw task submits for a sequence of results
RECURSIVE KindsOf(_)
KindsOf(t) ==
    IF t = <<>> THEN <<>>
    ELSE (IF t[1].ev = "frame" THEN << "anchor" >>
          ELSE IF t[1].ev = "chunk" THEN << "chunk" >>
          ELSE IF t[1].ev = "fail" /\ t[1].data # <<>> THEN << "flush" >>
          ELSE <<>>) \o KindsOf(Tail(t))

\* C7: a raw task with a sender works in cycles: one anchor frame from the
\* parser, then chunks up to a failed read, then the parser again; the
\* task is over exactly when a parser call of Phase A has returned io.EOF.
C7_Cycles ==
    \A c \in Conns :
        (InRaw(c) /\ sender[c] = "ok") =>
            LET t == trace[c]
                items == Submitted(c)
                anchors == SelectSeq(items, LAMBDA i : i.kind = "anchor")
            IN /\ \A k \in 1..Len(t) :
                     /\ k = 1 => t[k].ev \in { "frame", "eof" }
                     /\ (k > 1 /\ t[k-1].ev = "fail") => t[k].ev \in { "frame", "eof" }
                     /\ (k > 1 /\ t[k-1].ev \in { "frame", "chunk" })
                            => t[k].ev \in { "chunk", "fail" }
                     /\ t[k].ev = "eof" => k = Len(t)
               /\ pc[c] = "done" <=> (t # <<>> /\ t[Len(t)].ev = "eof")
               /\ [i \in 1..Len(items) |-> items[i].kind]
                      = SubSeq(KindsOf(t), 1, Len(items))
               /\ Len(KindsOf(t)) - Len(items) \in { 0, 1 }
               /\ [i \in 1..Len(anchors) |-> anchors[i].data]
                      = SubSeq(Returned(c), 1, Len(anchors))

C7_Witness ==
    /\ InRaw(1) /\ pc[1] = "done"
    /\ \E k \in 2..Len(trace[1]) :
          /\ trace[1][k-1].ev = "fail"
          /\ trace[1][k-1].data # <<>>
          /\ trace[1][k].ev = "frame"
    /\ Len(senderRecv[1]) >= 3

\* the buffers of connection c in a sequence of queue items, in order
FromConn(q, c) ==
    LET mine == SelectSeq(q, LAMBDA i : i.conn = c)
    IN [i \in 1..Len(mine) |-> mine[i].data]

\* C8: the items one request connection has put on the shared channel are,
\* in order and without loss or duplication, the frames the parser returned
\* for its stream, whatever the other connections do.
C8_PerConnOrder ==
    \A c \in Conns :
        InRequest(c) =>
            /\ FromConn(delivered \o C, c)
                 \o (IF pc[c] = "send" THEN << req[c] >> ELSE <<>>)
                 = Returned(c)
            /\ pc[c] = "done" => FromConn(delivered \o C, c) = ParseAll(flows[c])

C8_Witness ==
    /\ Len(flows) = 2
    /\ pc[1] = "done" /\ pc[2] = "done"
    /\ Len(delivered) >= 3
    /\ delivered[1].conn = 2
    /\ delivered[2].conn = 1
    /\ delivered[3].conn = 2

\* C9: once the parser has returned io.EOF to a request task, the task is
\* over for good: no further read, parser call or submission, and no new
\* task for the connection.
C9_OneShot ==
    [][\A c \in Conns :
          (InRequest(c) /\ trace[c] # <<>> /\ trace[c][Len(trace[c])].ev = "eof") =>
              /\ pc[c] = "done" /\ pc'[c] = "done"
              /\ r'[c] = r[c]
              /\ trace'[c] = trace[c]
              /\ handler'[c] = handler[c]
              /\ FromConn(delivered' \o C', c) = FromConn(delivered \o C, c)]_vars

C9_Witness ==
    /\ InRequest(1) /\ pc[1] = "done"
    /\ trace[1][Len(trace[1])].ev = "eof"
    /\ Len(FromConn(delivered, 1)) = 2
    /\ Len(flows) = 2 /\ pc[2] = "send"

\* C10: every connection gets one task, picked by the mode alone; a raw
\* task puts nothing on the shared channel and a request task has no
\* sender and puts nothing on a sender's channel.
C10_ModeDispatch ==
    /\ \A c \in Conns :
          /\ c <= videoPacketStreamCount <=> handler[c] # "none"
          /\ c <= videoPacketStreamCount =>
                handler[c] = IF mode = ModeRaw THEN "handleVideoPacketRaw"
                             ELSE "handleVideoPacketRequest"
    /\ mode = ModeRaw => C = <<>> /\ delivered = <<>>
    /\ mode # ModeRaw =>
          \A c \in Conns :
              sender[c] = "none" /\ senderData[c] = <<>> /\ senderRecv[c] = <<>>

C10_Witness ==
    /\ mode = ModeRaw
    /\ videoPacketStreamCount = 2
    /\ senderRecv[1] # <<>> /\ senderRecv[2] # <<>>
    /\ pc[1] = "done" /\ pc[2] = "done"

\* C11: a raw task creates its sender once, at its start, and never comes
\* back to the creation; whenever the task is over, for whatever cause, its
\* cancel() has run.
C11_OneSenderCancelled ==
    [][\A c \in Conns :
          handler'[c] = "handleVideoPacketRaw" =>
              /\ pc'[c] = "newSender" => pc[c] \in { "none", "newSender" }
              /\ sender[c] # "none" => sender'[c] = sender[c]
              /\ sender'[c] # sender[c] => pc[c] = "newSender"
              /\ pc'[c] = "done" => cancelled'[c]
              /\ cancelled'[c] => pc'[c] = "done"]_vars

C11_Witness ==
    /\ InRaw(1) /\ pc[1] = "done" /\ cancelled[1]
    /\ sender[1] = "ok"
    /\ Len(Returned(1)) = 2

\* C12: when the creation of the sender fails the raw task is over at
\* once: nothing read from the stream, no parser call, nothing submitted.
C12_SenderFailure ==
    \A c \in Conns :
        (InRaw(c) /\ sender[c] = "failed") =>
            /\ pc[c] = "done"
            /\ r[c] = flows[c]
            /\ trace[c] = <<>>
            /\ QueuedBy(c) = {}
            /\ Pending(c) = <<>>

C12_Witness ==
    /\ InRaw(1) /\ sender[1] = "failed" /\ pc[1] = "done"
    /\ flows[1] \in FrameStreams
    /\ Len(flows) = 2 /\ sender[2] = "ok" /\ senderRecv[2] # <<>>

\* whether the sequence a is a prefix of the sequence b
Prefix(a, b) == Len(a) <= Len(b) /\ a = SubSeq(b, 1, Len(a))

\* a request task run alone on a stream: the results of its parser calls
\* and the frames it puts on the channel
RequestRun(rd) ==
    LET fs == ParseAll(rd)
    IN [trace |-> [i \in 1..Len(fs) + 1 |->
                      IF i <= Len(fs) THEN Ev("frame", fs[i])
                      ELSE Ev("eof", <<>>)],
        items |-> fs]

\* a raw task run alone on a stream, from Phase "A" or "B": the results of
\* its reads and the buffers it submits to its sender
RECURSIVE RawRun(_, _)
RawRun(rd, phase) ==
    IF phase = "A"
    THEN LET res == parseVideoPacketRequest(rd)
         IN IF res.err # "nil"
            THEN [trace |-> << Ev("eof", <<>>) >>, items |-> <<>>]
            ELSE LET rest == RawRun(res.r, "B")
                 IN [trace |-> << Ev("frame", res.req) >> \o rest.trace,
                     items |-> << Item("anchor", res.req) >> \o rest.items]
    ELSE LET rf == ReadFull(rd, VideoPacketMaxBufferSize)
         IN IF rf.err # "nil"
            THEN LET rest == RawRun(rf.r, "A")
                 IN [trace |-> << Ev("fail", Take(rf.buf, rf.n)) >> \o rest.trace,
                     items |-> (IF rf.n > 0
                                THEN << Item("flush", Flushed(rf.buf, rf.n)) >>
                                ELSE <<>>) \o rest.items]
            ELSE LET rest == RawRun(rf.r, "B")
                 IN [trace |-> << Ev("chunk", rf.buf) >> \o rest.trace,
                     items |-> << Item("chunk", rf.buf) >> \o rest.items]

\* the runs of the streams of concurrent connections, each taken alone
SoloCases ==
    { [stream |-> s, request |-> RequestRun(s), raw |-> RawRun(s, "A")] :
        s \in FewStreams }
Solo(s) == CHOOSE k \in SoloCases : k.stream = s

\* C13: with several connections open, what a connection's task reads,
\* submits and when it ends is what the task would do alone on its own
\* stream, whatever the streams and errors of the other connections.
C13_NoInterference ==
    \A c \in Conns :
        (Len(flows) >= 2 /\ Active(c) /\ handler[c] # "none") =>
            IF InRequest(c)
            THEN LET solo == Solo(flows[c]).request
                 IN /\ Prefix(trace[c], solo.trace)
                    /\ Prefix(FromConn(delivered \o C, c), solo.items)
                    /\ pc[c] = "done" <=> trace[c] = solo.trace
                    /\ pc[c] = "done" => FromConn(delivered \o C, c) = solo.items
            ELSE IF sender[c] = "failed"
            THEN pc[c] = "done" /\ trace[c] = <<>> /\ Submitted(c) = <<>>
            ELSE LET solo == Solo(flows[c]).raw
                 IN /\ Prefix(trace[c], solo.trace)
                    /\ Prefix(Submitted(c), solo.items)
                    /\ pc[c] = "done" <=> trace[c] = solo.trace
                    /\ pc[c] = "done" => Submitted(c) = solo.items

C13_Witness ==
    /\ Len(flows) = 2 /\ flows[1] # flows[2]
    /\ ~NoFail(flows[1])
    /\ InRaw(1) /\ sender[1] = "failed"
    /\ InRaw(2) /\ pc[2] = "done" /\ trace[2] = Solo(flows[2]).raw.trace
    /\ Solo(flows[1]).raw.trace # Solo(flows[2]).raw.trace

\* the streams of UnderflowStreams with the frame that follows the length
UnderflowCases ==
    { [stream |-> Segs(<< Underflow(n, f) >>), frame |-> f] :
        n \in ShortLengths, f \in FrameSet }

\* C15 as stated: a candidate whose length field is below 17 is dropped
\* right after the length field, so the valid frame that starts directly
\* after these 4 bytes is what the same parser call returns.
C15_LengthUnderflow ==
    \A c \in Conns :
        (Active(c) /\ trace[c] # <<>>) =>
            \A k \in UnderflowCases :
                flows[c] = k.stream => trace[c][1] = Ev("frame", k.frame)

\* whether the buffer b has the structure of a protocol frame
IsValidFrame(b) ==
    /\ BLen(b) >= LengthOverhead
    /\ BLen(b) <= LengthOverhead + MaxDataLength
    /\ ByteAt(b, 1) = HeaderByte
    /\ ByteAt(b, 6) = VersionByte
    /\ ByteAt(b, BLen(b)) = TailByte
    /\ LET length == BigEndianUint32(Take(Drop(b, 1), 4))
       IN length[3] < 32768 /\ U64Int(length) = BLen(b)

\* C16 as stated: whatever the source does (full reads, short reads, reads
\* failing with an error other than io.EOF), every buffer the parser
\* returns has the markers 0x26, 1 and 0x28 in place, a length field of at
\* least 17 and a size equal to its length field, at most 17 + 10 MiB.
C16_ReturnedValid ==
    \A c \in Conns :
        \A i \in 1..Len(Returned(c)) : IsValidFrame(Returned(c)[i])

\* the streams of TruncatedStreams with their whole frames and the cut
TruncatedCases ==
    UNION { { [stream |-> Truncated(ws, f, p), whole |-> ws, cut |-> p] :
                p \in Cuts(f) } : ws \in Wholes, f \in { F0, F1, F300 } }

\* C17: on a stream that ends inside a frame, read in full, the parser
\* returns the whole frames before it and then io.EOF, never the cut
\* frame; the call that meets io.EOF ends the task, which has submitted
\* no frame but the whole ones.
C17_TruncatedFrame ==
    \A c \in Conns :
        Active(c) =>
            \A k \in TruncatedCases :
                flows[c] = k.stream =>
                    /\ Prefix(Returned(c), k.whole)
                    /\ (trace[c] # <<>> /\ trace[c][Len(trace[c])].ev = "eof")
                           => pc[c] = "done"
                    /\ InRequest(c) =>
                           /\ Prefix(FromConn(delivered \o C, c), k.whole)
                           /\ pc[c] = "done" =>
                                  /\ Returned(c) = k.whole
                                  /\ FromConn(delivered \o C, c) = k.whole
                    /\ InRaw(c) =>
                           \A i \in 1..Len(Submitted(c)) :
                               Submitted(c)[i].kind = "anchor" =>
                                   InSeq(Submitted(c)[i].data, k.whole)

C17_Witness ==
    /\ InRequest(1) /\ pc[1] = "done"
    /\ \E k \in TruncatedCases :
          /\ flows[1] = k.stream
          /\ Len(k.whole) = 2 /\ k.cut >= LengthOverhead - 1
          /\ FromConn(delivered, 1) = k.whole

\* whether the source of connection c fills every read (one segment, no
\* failing read)
FullSource(c) == Active(c) /\ Len(flows[c]) <= 1 /\ NoFail(flows[c])

\* a step of the task of c only moves forward in its stream: what is left
\* after the step is a suffix of what was left before it, a call begins
\* where the step before it left the stream, the frame a parser call
\* returns is the last bytes the call consumed (so the next read starts
\* right after the frame's tail), and a Phase-B read returns exactly the
\* bytes it consumed, which start right after the frame before it
ForwardStep(c) ==
    LET before == Flat(r[c])
        after == Flat(r'[c])
        step == BLen(before) - BLen(after)
        began == Flat(parserIn'[c])
        n == BLen(began) - BLen(after)
    IN /\ step >= 0
       /\ after = Drop(before, step)
       /\ after = Drop(Flat(flows[c]), BLen(Flat(flows[c])) - BLen(after))
       /\ parserIn'[c] # parserIn[c] => parserIn'[c] = r[c]
       /\ trace'[c] # trace[c] =>
              LET e == trace'[c][Len(trace'[c])]
              IN /\ e.ev = "frame" =>
                        /\ BLen(e.data) <= n
                        /\ e.data = Drop(Take(began, n), n - BLen(e.data))
                 /\ e.ev \in { "chunk", "fail" } => e.data = Take(began, n)
                 /\ e.ev = "eof" => after = <<>>

\* on a source that fills every read, every step of every task is a
\* forward step
ForwardOnFullSource ==
    [][\A c \in Conns :
          (FullSource(c) /\ handler[c] # "none") => ForwardStep(c)]_vars

\* C19 as stated: on any source, every step of every task only moves
\* forward and keeps no state between calls: no byte is read twice, the
\* frames returned are non-overlapping segments of the stream in increasing
\* position, and the bytes a call consumed end exactly at the tail byte of
\* the frame it returns, where the next parser call or Phase-B read starts.
C19_ForwardOnly ==
    [][\A c \in Conns :
          (Active(c) /\ handler[c] # "none") => ForwardStep(c)]_vars

\* the same on the sources whose reads never fail, but may return fewer
\* bytes than asked for
ForwardOnShortReads ==
    [][\A c \in Conns :
          (Active(c) /\ NoFail(flows[c]) /\ handler[c] # "none") =>
              ForwardStep(c)]_vars

\* every connection's task is over and all it recovered has reached the
\* consumer: the frames of a request task, the anchors, chunks and flushed
\* buffers of a raw task
AllTerminated ==
    /\ videoPacketStreamCount = Len(flows)
    /\ \A c \in Conns :
          Active(c) =>
              /\ pc[c] = "done"
              /\ InRequest(c) => FromConn(delivered, c) = Returned(c)
              /\ InRaw(c) =>
                     /\ senderData[c] = <<>>
                     /\ [i \in 1..Len(senderRecv[c]) |-> senderRecv[c][i].kind]
                            = KindsOf(trace[c])

\* C14: when the consumers keep draining, every task, in either mode,
\* ends after the io.EOF of its finite stream with everything it recovered
\* submitted and received; no task stays blocked on a send.
C14_Terminates == <>[]AllTerminated

C14_Witness ==
    /\ AllTerminated
    /\ Len(flows) = 2
    /\ InRequest(1)
    /\ Len(FromConn(delivered, 1)) + Len(FromConn(delivered, 2)) >= 3
    /\ C = <<>>

\* C18: every parser call comes to its return, with a frame or with
\* io.EOF: each statement of its loop either takes bytes off the finite
\* stream or moves on to the next statement.
C18_ParserReturns == []<>(pc[1] \notin ParserPositions)

C18_Witness ==
    /\ pc[1] = "send"
    /\ BLen(Flat(parserIn[1])) - BLen(Flat(r[1])) > BLen(req[1])
    /\ ~NoFail(parserIn[1])

\* the buffers connection c has put on a channel, in order
SentBy(c) ==
    IF InRequest(c) THEN FromConn(delivered \o C, c)
    ELSE [i \in 1..Len(senderRecv[c] \o senderData[c]) |->
             (senderRecv[c] \o senderData[c])[i].data]

\* C20: a buffer is submitted once, holds from then on the bytes it was
\* submitted with (the task does not write to it any more), and the buffer
\* a task is about to submit was allocated after everything it submitted.
C20_NoSharedBuffer ==
    \A c \in Conns :
        (Active(c) /\ handler[c] # "none") =>
            /\ Len(sentIds[c]) = Len(SentBy(c))
            /\ \A i, j \in 1..Len(sentIds[c]) :
                   i # j => sentIds[c][i] # sentIds[c][j]
            /\ \A i \in 1..Len(sentIds[c]) :
                   heap[c][sentIds[c][i]] = SentBy(c)[i]
            /\ pc[c] \in { "send", "sendChunk", "flush" } =>
                   /\ ~InSeq(bufId[c], sentIds[c])
                   /\ heap[c][bufId[c]] = req[c]

C20_Witness ==
    /\ InRaw(1) /\ pc[1] = "done"
    /\ Len(sentIds[1]) >= 3
    /\ Len(heap[1]) > Len(sentIds[1])

====
